---------------------------- MODULE Spec2Model ----------------------------
(***************************************************************************)
(* Model of src/src/main.rs: a coordinator (main) that, in "cache" mode,   *)
(* creates one bounded mpsc channel, spawns the aggregator task and        *)
(* num_clients client tasks, joins the clients in spawn order and then the *)
(* aggregator.  Each client connects to the feed, collects prices while    *)
(* its window is open, sends (id, average) once and saves its record.      *)
(*                                                                         *)
(* f64 values are modelled as exact non-negative rationals <<num, den>> in *)
(* lowest terms, so "sum / len" is exact; the {:.4} display conversion is  *)
(* modelled by Fmt4 (an integer number of ten-thousandths).                *)
(***************************************************************************)
EXTENDS Integers, Sequences, FiniteSets, TLC

\* ------------------------------------------------------------------ bounds
\* Number of client tasks of the model (the source fixes num_clients at 5;
\* every operation is written for an arbitrary count and checked for this one).
num_clients == 2

\* Number of well-formed price frames the feed delivers during one run, over
\* all connections together.
MaxFrames == 3

\* Values of the --times argument: an empty window and a non-empty one.
Times == {0, 1}

\* Price values carried by well-formed frames.
Prices == {1, 2}

Clients == 1..num_clients

\* Option::None of calculate_average (Some(x) is the rational x itself).
None == <<>>

\* A record file: absent, created but left empty, complete, or complete up
\* to a first / second line that cannot be read back.
FileOf(st, ps, avg) == [st |-> st, prices |-> ps, average |-> avg]
NoFile == FileOf("absent", <<>>, 0)
Truncated == FileOf("empty", <<>>, 0)

\* ------------------------------------------------------------- arithmetic
\* Greatest common divisor of a >= 0 and b > 0.
RECURSIVE GCD(_, _)
GCD(a, b) == IF b = 0 THEN a ELSE GCD(b, a % b)

\* A rational in lowest terms (den > 0, num >= 0).
Rat(n, d) == LET g == GCD(n, d) IN <<n \div g, d \div g>>

RatAdd(x, y) == Rat(x[1] * y[2] + y[1] * x[2], x[2] * y[2])

\* prices.iter().sum::<f64>(): the elements are added from the first to the
\* last, starting from 0.
RECURSIVE Sum(_)
Sum(s) == IF s = <<>> THEN <<0, 1>> ELSE RatAdd(s[1], Sum(Tail(s)))

\* Mutant of calculate_average: divides by one more than the length.
calculate_average_off_by_one(s) ==
    IF s = <<>> THEN None ELSE Rat(Sum(s)[1], Sum(s)[2] * (Len(s) + 1))

\* Mutant of calculate_average: the first element is left out of the sum.
calculate_average_skip_first(s) ==
    IF s = <<>> THEN None
    ELSE Rat(Sum(Tail(s))[1], Sum(Tail(s))[2] * Len(s))

\* Mutant of calculate_average: an empty vector has the average 0.
calculate_average_zero(s) ==
    IF s = <<>> THEN <<0, 1>> ELSE Rat(Sum(s)[1], Sum(s)[2] * Len(s))

\* calculate_average: None on an empty vector, else the sum is computed once
\* (let sum = prices.iter().sum()) and divided by the length.
calculate_average(s) ==
    IF s = <<>> THEN None
    ELSE CHOOSE avg \in {Rat(sum[1], sum[2] * Len(s)) : sum \in {Sum(s)}} : TRUE

\* The {:.4} display of an f64: the value rounded to four decimals (ties to
\* even), as an integer count of ten-thousandths.
Fmt4(x) ==
    LET n == x[1] * 10000
        q == n \div x[2]
        r == n % x[2]
    IN  IF 2 * r > x[2] \/ (2 * r = x[2] /\ q % 2 = 1) THEN q + 1 ELSE q

\* ----------------------------------------------------------------- frames
\* What ws_stream.next().await can yield.  Text frames carry a body:
\*   "price"     JSON object whose "p" is a string that parses as f64
\*   "notnumber" JSON object whose "p" is a string that is no number
\*   "missing"   JSON without a "p" member
\*   "notjson"   text that is not JSON
\*   "nonstring" JSON object whose "p" is present but is not a JSON string
\* Every other outcome (binary/ping/close frame, stream error, end of stream)
\* is the frame "notext".
TextFrames ==
    {[t |-> "text", body |-> "price", p |-> v] : v \in Prices}
    \cup {[t |-> "text", body |-> b, p |-> 0] :
             b \in {"notnumber", "missing", "notjson", "nonstring"}}

NoTextFrame == [t |-> "notext", body |-> "none", p |-> 0]

Frames == TextFrames \cup {NoTextFrame}

\* process_message: <<"Ok", price>>, <<"Err">>, or <<"Panic">> where
\* price.as_str().unwrap() is applied to a value that is not a string.
process_message(m) ==
    CASE m.body = "notjson" -> <<"Err">>
      [] m.body = "missing" -> <<"Err">>
      [] m.body = "nonstring" -> <<"Panic">>
      [] m.body = "notnumber" -> <<"Err">>
      [] OTHER -> <<"Ok", <<m.p, 1>> >>

\* ------------------------------------------------------------------ state
VARIABLES
    mode,       \* --mode argument
    times,      \* --times argument (seconds)
    mainPc,     \* position of main
    k,          \* index of main's current loop (spawn, join, or file loop)
    pc,         \* position of each client task
    wid,        \* id argument each client task was spawned with (0: not yet)
    prices,     \* each client's Vec<f64> of collected prices
    chan,       \* queued (id, avg) messages of the mpsc channel
    sent,       \* history: every (id, avg) accepted by the channel, in order
    aggPc,      \* position of the aggregator task
    iter,       \* number of completed iterations of the aggregator's for loop
    averages,   \* the aggregator's Vec of received averages
    global_avg, \* the aggregator's global_avg (None until it is computed)
    file,       \* client_<i>_data.txt for each i
    globalFile, \* global_data.txt
    printed,    \* what read_mode has printed to standard output, in order
    readResult, \* value returned by read_mode ("none" until it returns)
    fed,        \* number of well-formed price frames the feed has delivered
    aborted     \* running clients that left the loop by its break (line 32)

vars == <<mode, times, mainPc, k, pc, wid, prices, chan, sent, aggPc, iter,
          averages, global_avg, file, globalFile, printed, readResult, fed,
          aborted>>

clientVars == <<pc, wid, prices, file, aborted>>
aggVars == <<aggPc, iter, averages, global_avg, globalFile>>
readVars == <<printed, readResult>>
mainVars == <<mode, times, mainPc, k>>

Modes == {"cache", "read", "other"}

\* A record left by an earlier run, as read_mode finds it.
StoredRecord == FileOf("complete", << <<1, 1>>, <<2, 1>> >>, 15000)

BadLine1 == FileOf("badline1", <<>>, 0)
BadLine2 == FileOf("badline2", << <<1, 1>>, <<2, 1>> >>, 0)

\* States of a record file when read_mode opens it.
StoredFiles == {NoFile, Truncated, StoredRecord, BadLine1, BadLine2}

Init ==
    /\ mode \in Modes
    /\ times \in Times
    /\ mainPc = "start"
    /\ k = 0
    /\ pc = [w \in Clients |-> "unspawned"]
    /\ wid = [w \in Clients |-> 0]
    /\ prices = [w \in Clients |-> <<>>]
    /\ chan = <<>>
    /\ sent = <<>>
    /\ aggPc = "unspawned"
    /\ iter = 0
    /\ averages = <<>>
    /\ global_avg = None
    /\ IF mode = "read"
         THEN file \in [Clients -> StoredFiles] /\ globalFile \in StoredFiles
         ELSE file = [w \in Clients |-> NoFile] /\ globalFile = NoFile
    /\ printed = <<>>
    /\ readResult = "none"
    /\ fed = 0
    /\ aborted = {}

\* ---------------------------------------------------------------- channel
\* Mutant of Capacity: the buffer holds one message less.
CapacitySmaller == num_clients - 1

\* mpsc::channel(num_clients): the buffer size.
Capacity == num_clients

\* A client task has returned ("failed": connection error, "nodata": no
\* data point collected, "done": after the save) or unwound from a panic;
\* its tx clone and its Vec are dropped.
Finished(w) == pc[w] \in {"failed", "nodata", "done", "panicked"}

\* Mutant of MainHoldsTx: main's own tx is dropped once the clients are spawned.
MainDropsTx == mainPc \in {"spawn"}

\* main's original tx lives until the end of the "cache" arm, that is until
\* after aggregator.await.
MainHoldsTx == mainPc \in {"spawn", "join", "joinAgg"}

\* Some Sender of the channel is still alive.
SenderAlive ==
    MainHoldsTx \/ \E w \in Clients : pc[w] # "unspawned" /\ ~Finished(w)

\* The Receiver is alive: the aggregator task owns rx until it returns.
ReceiverAlive == aggPc = "recv"

\* Mutant of SpawnId: every client is given the same id.
SpawnIdConst(i) == 1

\* The id passed to the i-th spawned client: for id in 1..=num_clients.
SpawnId(i) == i

\* ------------------------------------------------------------------- main
\* "cache" arm, up to the spawn loop: channel created, aggregator spawned.
StartCache ==
    /\ mainPc = "start" /\ mode = "cache"
    /\ mainPc' = "spawn"
    /\ k' = 1
    /\ aggPc' = "recv"
    /\ UNCHANGED <<mode, times, clientVars, chan, sent, iter, averages,
                   global_avg, globalFile, readVars, fed>>

\* One iteration of the spawn loop; after the last one main goes on to the
\* join loop.
SpawnClient ==
    /\ mainPc = "spawn"
    /\ pc' = [pc EXCEPT ![k] = "connect"]
    /\ wid' = [wid EXCEPT ![k] = SpawnId(k)]
    /\ IF k = num_clients
         THEN mainPc' = "join" /\ k' = 1
         ELSE mainPc' = mainPc /\ k' = k + 1
    /\ UNCHANGED <<mode, times, prices, file, aborted, chan, sent, aggVars,
                   readVars, fed>>

\* Mutant of ClientJoined: awaiting a client's handle never completes.
ClientJoinedNever(i) == FALSE

\* Mutant of ClientJoined: the join does not wait for the task.
ClientJoinedEarly(i) == TRUE

\* client.await completes when the task has returned or panicked.
ClientJoined(i) == Finished(i)

\* One iteration of: for client in clients { let _ = client.await; }
JoinClient ==
    /\ mainPc = "join"
    /\ ClientJoined(k)
    /\ IF k = num_clients
         THEN mainPc' = "joinAgg" /\ k' = 0
         ELSE mainPc' = mainPc /\ k' = k + 1
    /\ UNCHANGED <<mode, times, clientVars, chan, sent, aggVars, readVars, fed>>

\* let _ = aggregator.await; then the arm ends and main returns.
JoinAggregator ==
    /\ mainPc = "joinAgg"
    /\ aggPc = "done"
    /\ mainPc' = "done"
    /\ UNCHANGED <<mode, times, k, clientVars, chan, sent, aggVars, readVars, fed>>

\* Mutant of InvalidMode: an unknown mode falls through to the live pipeline.
InvalidModeRunsCache ==
    /\ mainPc = "start" /\ mode = "other"
    /\ mainPc' = "spawn"
    /\ k' = 1
    /\ aggPc' = "recv"
    /\ UNCHANGED <<mode, times, clientVars, chan, sent, iter, averages,
                   global_avg, globalFile, readVars, fed>>

\* The "_" arm: the usage message is printed and main returns.
InvalidMode ==
    /\ mainPc = "start" /\ mode = "other"
    /\ mainPc' = "done"
    /\ UNCHANGED <<mode, times, k, clientVars, chan, sent, aggVars, readVars, fed>>

\* ----------------------------------------------------------------- client
\* Mutant of Connect: a failed connection is reported to the aggregator as
\* an empty result.
ConnectSendsEmpty(w, ok) ==
    /\ pc[w] = "connect"
    /\ pc' = [pc EXCEPT ![w] = IF ok THEN "loop" ELSE "failed"]
    /\ chan' = IF ok THEN chan ELSE Append(chan, <<wid[w], <<0, 1>>>>)
    /\ sent' = IF ok THEN sent ELSE Append(sent, <<wid[w], <<0, 1>>>>)
    /\ UNCHANGED <<mainVars, wid, prices, file, aborted,
                   aggVars, readVars, fed>>

\* connect_to_websocket().await: on Err the task returns at once.
Connect(w, ok) ==
    /\ pc[w] = "connect"
    /\ pc' = [pc EXCEPT ![w] = IF ok THEN "loop" ELSE "failed"]
    /\ UNCHANGED <<mainVars, wid, prices, file, aborted, chan, sent,
                   aggVars, readVars, fed>>

\* Mutant of AfterLoop: whatever was collected is dropped and the task returns.
AfterLoopDiscards(w) == "nodata"

\* Where the code after the while loop takes the task: None from
\* calculate_average returns, Some(avg) goes on to tx.send(..).await.
AfterLoop(w) ==
    IF calculate_average(prices[w]) = None THEN "nodata" ELSE "send"

\* One iteration of the while loop whose condition held (the window is open,
\* which needs times > 0): the next frame m is awaited and handled.
NextMessage(w, m) ==
    /\ pc[w] = "loop"
    /\ times > 0
    /\ IF m.t = "text"
         THEN LET r == process_message(m) IN
              CASE r[1] = "Ok" ->
                      /\ fed < MaxFrames
                      /\ fed' = fed + 1
                      /\ prices' = [prices EXCEPT ![w] = Append(@, r[2])]
                      /\ pc' = pc
                      /\ aborted' = aborted
                [] r[1] = "Err" ->
                      /\ prices' = prices
                      /\ pc' = pc
                      /\ fed' = fed
                      /\ aborted' = aborted
                [] OTHER ->
                      /\ prices' = [prices EXCEPT ![w] = <<>>]
                      /\ pc' = [pc EXCEPT ![w] = "panicked"]
                      /\ fed' = fed
                      /\ aborted' = aborted
         ELSE /\ pc' = [pc EXCEPT ![w] = AfterLoop(w)]
              /\ prices' = [prices EXCEPT ![w] =
                               IF AfterLoop(w) = "nodata" THEN <<>> ELSE @]
              /\ fed' = fed
              /\ aborted' = IF AfterLoop(w) = "nodata" THEN aborted
                             ELSE aborted \cup {wid[w]}
    /\ UNCHANGED <<mainVars, wid, file, chan, sent, aggVars, readVars>>

\* The while condition is false: elapsed().as_secs() >= times.  With
\* times = 0 this is the first evaluation; otherwise the clock decides.
WindowClosed(w) ==
    /\ pc[w] = "loop"
    /\ pc' = [pc EXCEPT ![w] = AfterLoop(w)]
    /\ prices' = [prices EXCEPT ![w] = IF AfterLoop(w) = "nodata" THEN <<>> ELSE @]
    /\ UNCHANGED <<mainVars, wid, file, aborted, chan, sent, aggVars,
                   readVars, fed>>

\* tx.send(..).await can complete: a permit is free, or the receiver is
\* gone (then it completes with an error).
SendReady == Len(chan) < Capacity \/ ~ReceiverAlive

\* let _ = tx.send((id, avg)).await; the result is discarded.
Send(w) ==
    /\ pc[w] = "send"
    /\ SendReady
    /\ \E msg \in {<<wid[w], calculate_average(prices[w])>>} :
          IF ReceiverAlive
            THEN chan' = Append(chan, msg) /\ sent' = Append(sent, msg)
            ELSE chan' = chan /\ sent' = sent
    /\ pc' = [pc EXCEPT ![w] = "save"]
    /\ UNCHANGED <<mainVars, wid, prices, file, aborted, aggVars,
                   readVars, fed>>

\* Outcomes of File::create followed by writeln!.
SaveOutcomes == {"ok", "createfails", "writefails"}

\* The file after a save attempt of record rec with outcome o.
Written(old, rec, o) ==
    CASE o = "ok" -> rec
      [] o = "createfails" -> old
      [] OTHER -> Truncated

\* save_client_data(id, &prices, avg) with its error logged, then return.
SaveClient(w, o) ==
    /\ pc[w] = "save"
    /\ \E avg \in {calculate_average(prices[w])} :
          LET rec == FileOf("complete", prices[w], Fmt4(avg))
          IN  file' = [file EXCEPT ![wid[w]] = Written(@, rec, o)]
    /\ pc' = [pc EXCEPT ![w] = "done"]
    /\ prices' = [prices EXCEPT ![w] = <<>>]
    /\ aborted' = aborted \ {wid[w]}
    /\ UNCHANGED <<mainVars, wid, chan, sent, aggVars, readVars, fed>>

\* ------------------------------------------------------------- aggregator
\* Mutant of LoopCount: the loop runs one iteration short.
LoopCountShort == num_clients - 1

\* for _ in 0..num_clients
LoopCount == num_clients

\* Mutant of Pushed: the received average is inserted at the front.
PushedFront(v, avg) == <<avg>> \o v

\* averages.push(avg)
Pushed(v, avg) == Append(v, avg)

\* One iteration of the for loop: rx.recv().await yields the oldest queued
\* message, or None once the queue is empty and every Sender is dropped.
Receive ==
    /\ aggPc = "recv"
    /\ iter < LoopCount
    /\ chan # <<>> \/ ~SenderAlive
    /\ IF chan # <<>>
         THEN /\ averages' = Pushed(averages, Head(chan)[2])
              /\ chan' = Tail(chan)
         ELSE /\ averages' = averages
              /\ chan' = chan
    /\ iter' = iter + 1
    /\ UNCHANGED <<mainVars, clientVars, sent, aggPc, global_avg, globalFile,
                   readVars, fed>>

\* The code after the for loop: the global average is computed and saved
\* (an error is logged), or "No averages received" is reported.
Finalize(o) ==
    /\ aggPc = "recv"
    /\ iter = LoopCount
    /\ global_avg' = calculate_average(averages)
    /\ IF global_avg' = None
         THEN globalFile' = globalFile
         ELSE globalFile' =
                Written(globalFile,
                        FileOf("complete", averages, Fmt4(global_avg')), o)
    /\ aggPc' = "done"
    /\ UNCHANGED <<mainVars, clientVars, chan, sent, iter,
                   averages, readVars, fed>>

\* -------------------------------------------------------------- read_mode
\* files: client_1_data.txt .. client_<num_clients>_data.txt, global_data.txt
FileCount == num_clients + 1

FileAt(i) == IF i <= num_clients THEN file[i] ELSE globalFile

\* "read" arm: read_mode prints its banner and builds the list of files.
StartRead ==
    /\ mainPc = "start" /\ mode = "read"
    /\ mainPc' = "read"
    /\ k' = 1
    /\ UNCHANGED <<mode, times, clientVars, chan, sent, aggVars, readVars, fed>>

\* What one iteration of 'file_loop prints for a file in state f, and
\* whether the iteration ends with break.
FilePrints(i, f) ==
    CASE f.st = "absent" -> <<>>
      [] f.st = "empty" -> << <<i, "header", <<>> >> >>
      [] f.st = "badline1" -> << <<i, "header", <<>> >> >>
      [] f.st = "badline2" ->
            << <<i, "header", <<>> >>, <<i, "line1", f.prices>> >>
      [] OTHER -> << <<i, "header", <<>> >>, <<i, "line1", f.prices>>,
                     <<i, "line2", <<f.average>> >> >>

\* Mutant of FileBreaks: an error is reported and the loop goes on.
FileBreaksNever(f) == FALSE

\* Mutant of FileBreaks: only a file that cannot be opened ends the loop.
FileBreaksOnOpenOnly(f) == f.st = "absent"

FileBreaks(f) == f.st \in {"absent", "badline1", "badline2"}

\* One iteration of 'file_loop; after a break or the last file read_mode
\* returns Ok(()) and main returns.
ReadFile ==
    /\ mainPc = "read"
    /\ printed' = printed \o FilePrints(k, FileAt(k))
    /\ IF FileBreaks(FileAt(k)) \/ k = FileCount
         THEN mainPc' = "done" /\ readResult' = "Ok" /\ k' = k
         ELSE mainPc' = mainPc /\ readResult' = readResult /\ k' = k + 1
    /\ UNCHANGED <<mode, times, clientVars, chan, sent, aggVars, fed>>

\* ------------------------------------------------------------------- spec
Next ==
    \/ StartCache
    \/ SpawnClient
    \/ JoinClient
    \/ JoinAggregator
    \/ InvalidMode
    \/ \E w \in Clients, ok \in BOOLEAN : Connect(w, ok)
    \/ \E w \in Clients, m \in Frames : NextMessage(w, m)
    \/ \E w \in Clients : WindowClosed(w)
    \/ \E w \in Clients : Send(w)
    \/ \E w \in Clients, o \in SaveOutcomes : SaveClient(w, o)
    \/ Receive
    \/ \E o \in SaveOutcomes : Finalize(o)
    \/ StartRead
    \/ ReadFile

Spec == Init /\ [][Next]_vars

\* A step of main, of a client after its loop, or of the aggregator: the
\* steps that need nothing from the feed.
TaskStep ==
    \/ StartCache
    \/ SpawnClient
    \/ JoinClient
    \/ JoinAggregator
    \/ InvalidMode
    \/ StartRead
    \/ ReadFile
    \/ \E w \in Clients : Send(w)
    \/ \E w \in Clients, o \in SaveOutcomes : SaveClient(w, o)
    \/ Receive
    \/ \E o \in SaveOutcomes : Finalize(o)

\* The runtime keeps polling the tasks that can take a step, and main runs:
\* the program does not stop while one of these steps is possible.  Nothing
\* is assumed of the feed (Connect, NextMessage, WindowClosed).
Fairness == WF_vars(TaskStep)

FairSpec == Spec /\ Fairness

\* ================================================================= claims
AllFinished == \A w \in Clients : Finished(w)

\* The ids and the averages of a sequence of (id, avg) messages.
IdsOf(q) == [i \in DOMAIN q |-> q[i][1]]
AvgsOf(q) == [i \in DOMAIN q |-> q[i][2]]

\* The messages of `sent` that carry the id i.
SentBy(i) == {j \in DOMAIN sent : sent[j][1] = i}

\* x is exactly (sum of the rationals of s) / Len(s), stated by cross
\* multiplication over the common denominator, without calculate_average.
RECURSIVE ProdDen(_)
ProdDen(s) == IF s = <<>> THEN 1 ELSE s[1][2] * ProdDen(Tail(s))

RECURSIVE ScaledSum(_, _)
ScaledSum(s, d) ==
    IF s = <<>> THEN 0
    ELSE s[1][1] * (d \div s[1][2]) + ScaledSum(Tail(s), d)

IsMeanOf(x, s) ==
    /\ s # <<>>
    /\ x # None
    /\ x[1] * Len(s) * ProdDen(s) = x[2] * ScaledSum(s, ProdDen(s))

\* C1: in collect mode the aggregator never receives more than num_clients
\* results, and it has finalized (left its loop, computed the global
\* average, written global_data.txt) only in states where its list of
\* received averages has length num_clients.
C1_FinalizeOnlyAfterAll ==
    mode = "cache" =>
        /\ Len(averages) <= num_clients
        /\ iter <= num_clients
        /\ aggPc = "done" => Len(averages) = num_clients
        /\ global_avg # None => Len(averages) = num_clients
        /\ globalFile # NoFile => Len(averages) = num_clients

C1_Witness ==
    /\ mode = "cache"
    /\ aggPc = "done"
    /\ globalFile.st = "complete"
    /\ Len(globalFile.prices) = num_clients

\* C2: every client sends at most one (id, avg) message: the messages ever
\* accepted by the channel, hence those queued and those received, carry
\* pairwise distinct ids, each in 1..num_clients.
C2_OneResultPerClient ==
    /\ \A i, j \in DOMAIN sent : i # j => sent[i][1] # sent[j][1]
    /\ \A i \in DOMAIN sent : sent[i][1] \in 1..num_clients
    /\ \A i \in DOMAIN chan : chan[i] = sent[Len(sent) - Len(chan) + i]
    /\ Len(averages) + Len(chan) = Len(sent)

C2_Witness ==
    /\ Len(sent) = num_clients
    /\ chan # <<>>
    /\ averages # <<>>

\* C3: a client whose log is empty when its loop ends returns at the
\* "No data points collected" point: it has sent no message and has written
\* no record; only a client with a non-empty log is ever at the send or at
\* the save.
C3_EmptyLogNeverEmits ==
    \A w \in Clients :
        /\ pc[w] \in {"send", "save"} => prices[w] # <<>>
        /\ pc[w] = "nodata" => SentBy(wid[w]) = {} /\ file[wid[w]] = NoFile
        /\ file[w].st = "complete" => file[w].prices # <<>>

C3_Witness ==
    \E w \in Clients : pc[w] = "nodata" /\ times > 0 /\ sent # <<>>

\* C4: when every client task has finished and fewer than num_clients
\* results were sent, the aggregator is still in its receive loop with no
\* step of it enabled once the queue is drained, nothing it could wait for
\* can still be sent, global_data.txt is not written and main has not
\* completed its join on the aggregator; the aggregator finalizes and main
\* returns only in states where all num_clients results were sent.
C4_StarvedAggregatorBlocks ==
    mode = "cache" =>
        /\ (aggPc = "done" \/ mainPc = "done" \/ globalFile # NoFile)
              => Len(sent) = num_clients
        /\ (AllFinished /\ Len(sent) < num_clients) =>
              /\ aggPc = "recv"
              /\ iter < num_clients
              /\ mainPc \in {"join", "joinAgg"}
              /\ ~ENABLED JoinAggregator
              /\ \A w \in Clients : ~ENABLED Send(w)
              /\ chan = <<>> =>
                    ~ENABLED Receive /\ \A o \in SaveOutcomes : ~ENABLED Finalize(o)

C4_Witness ==
    /\ AllFinished
    /\ sent # <<>>
    /\ Len(sent) < num_clients
    /\ chan = <<>>
    /\ mainPc = "joinAgg"

\* C5: the queue never holds more than num_clients messages, and whenever
\* a client is at its send a slot of the channel is free, so the send
\* completes without waiting for the aggregator, whatever the aggregator
\* has received so far.
C5_SendNeverSuspends ==
    /\ Len(chan) <= num_clients
    /\ \A w \in Clients : pc[w] = "send" => Len(chan) < Capacity

C5_Witness ==
    /\ iter = 0
    /\ Len(chan) = num_clients - 1
    /\ \E w \in Clients : pc[w] = "send"

\* C6: the averages the aggregator has recorded are the averages of the
\* first messages that entered the channel, in that order, and the list it
\* persists is the list of all of them in the order they entered.
C6_ArrivalOrder ==
    /\ Len(averages) <= Len(sent)
    /\ averages = [i \in 1..Len(averages) |-> sent[i][2]]
    /\ (mode = "cache" /\ globalFile.st = "complete")
          => globalFile.prices = AvgsOf(sent)

\* Persisted in an order that is not the order of the ids, with averages
\* that tell the two orders apart.
C6_Witness ==
    /\ mode = "cache"
    /\ globalFile.st = "complete"
    /\ \E i, j \in DOMAIN sent :
          i < j /\ sent[i][1] > sent[j][1] /\ sent[i][2] # sent[j][2]

\* C7: the global average is exactly the sum of the averages that were
\* sent divided by their number, and the persisted "Global Average" is its
\* four-decimal display.
C7_MeanOfMeans ==
    (mode = "cache" /\ aggPc = "done") =>
        /\ IsMeanOf(global_avg, AvgsOf(sent))
        /\ globalFile.st = "complete" => globalFile.average = Fmt4(global_avg)

\* All the raw observations of the run, as the client records hold them.
RECURSIVE Pooled(_)
Pooled(i) == IF i = 0 THEN <<>> ELSE Pooled(i - 1) \o file[i].prices

\* A finished run whose global average differs from the mean of the pooled
\* raw observations.
C7_Witness ==
    /\ mode = "cache"
    /\ aggPc = "done"
    /\ globalFile.st = "complete"
    /\ \A w \in Clients : file[w].st = "complete"
    /\ ~IsMeanOf(global_avg, Pooled(num_clients))

\* C8: the average a client sends is exactly the sum of the prices in its
\* log divided by their number, and its record holds that same log with the
\* four-decimal display of that average.
C8_LocalMean ==
    \A w \in Clients :
        /\ pc[w] = "save" =>
              \E j \in SentBy(wid[w]) : IsMeanOf(sent[j][2], prices[w])
        /\ (mode = "cache" /\ file[w].st = "complete") =>
              \E j \in SentBy(w) :
                  /\ IsMeanOf(sent[j][2], file[w].prices)
                  /\ file[w].average = Fmt4(sent[j][2])

C8_Witness ==
    \E w \in Clients :
        /\ mode = "cache"
        /\ pc[w] = "done"
        /\ file[w].st = "complete"
        /\ Len(file[w].prices) = 3
        /\ file[w].average = 16667

\* C9: main starts waiting on the aggregator only when every client task
\* has finished, it joins the clients in order, and it returns from the
\* "cache" arm only when all clients and the aggregator have finished.
C9_SequentialJoins ==
    mode = "cache" =>
        /\ mainPc = "join" => \A i \in 1..(k - 1) : Finished(i)
        /\ mainPc = "joinAgg" => AllFinished
        /\ mainPc = "done" => AllFinished /\ aggPc = "done"

C9_Witness ==
    /\ mode = "cache"
    /\ mainPc = "done"

\* Text frames whose price field is missing, or present but not a number.
Malformed == {m \in TextFrames : m.body \in {"missing", "notnumber", "nonstring"}}

\* C10: a client that receives a text frame whose price field is missing,
\* or present but not a valid number, leaves its log unchanged and stays in
\* its loop.
C10_DecodeFailureNonFatal ==
    [][\A w \in Clients, m \in Malformed :
          NextMessage(w, m) => prices'[w] = prices[w] /\ pc'[w] = "loop"]_vars


\* ---------------------------------------------------------------- C11
\* A record that cannot be opened, or one of whose lines cannot be read.
Unreadable(i) == FileAt(i).st \in {"absent", "badline1", "badline2"}

\* Position of the first unreadable record in the order client_1 ..
\* client_<num_clients>, global (FileCount + 1 when every record is readable).
FirstUnreadable ==
    IF \E i \in 1..FileCount : Unreadable(i)
      THEN CHOOSE i \in 1..FileCount :
              Unreadable(i) /\ \A j \in 1..(i - 1) : ~Unreadable(j)
      ELSE FileCount + 1

\* What read_mode has printed of record i.
PrintedOf(i) == SelectSeq(printed, LAMBDA e : e[1] = i)

\* Record i is printed: its "Reading file" header and each of its lines.
RecordPrinted(i) ==
    LET f == FileAt(i) IN
    /\ ~Unreadable(i)
    /\ Len(PrintedOf(i)) = IF f.st = "complete" THEN 3 ELSE 1
    /\ PrintedOf(i)[1][2] = "header"
    /\ f.st = "complete" =>
          /\ PrintedOf(i)[2] = <<i, "line1", f.prices>>
          /\ PrintedOf(i)[3] = <<i, "line2", <<f.average>> >>

\* C11: read_mode visits the records in the order client_1 .. client_N,
\* global; nothing of a record after the first unreadable one is ever
\* printed, and when read_mode has returned the printed records are exactly
\* the records before the first unreadable one (all num_clients + 1 when
\* none is unreadable); of the unreadable record itself only what was read
\* before the failure is printed.
C11_PrintsPrefix ==
    mode = "read" =>
        /\ \A a, b \in DOMAIN printed : a < b => printed[a][1] <= printed[b][1]
        /\ \A i \in 1..FileCount : i > FirstUnreadable => PrintedOf(i) = <<>>
        /\ mainPc = "done" =>
              /\ \A i \in 1..FileCount : RecordPrinted(i) <=> i < FirstUnreadable
              /\ FirstUnreadable <= FileCount =>
                    Len(PrintedOf(FirstUnreadable)) =
                        CASE FileAt(FirstUnreadable).st = "absent" -> 0
                          [] FileAt(FirstUnreadable).st = "badline1" -> 1
                          [] OTHER -> 2

\* read_mode has returned after stopping at an unreadable second record
\* although the record after it is readable.
C11_Witness ==
    /\ mode = "read"
    /\ mainPc = "done"
    /\ FirstUnreadable = 2
    /\ RecordPrinted(1)
    /\ FileAt(3).st = "complete"
    /\ PrintedOf(3) = <<>>


\* ---------------------------------------------------------------- C12
\* C12: when read_mode has stopped at a record that cannot be opened or
\* read, the value it returns to main is an error.
C12_StopIsReportedAsError ==
    (mode = "read" /\ mainPc = "done" /\ FirstUnreadable <= FileCount)
        => readResult = "Err"

\* ---------------------------------------------------------------- C13
\* No channel, client task or aggregator task exists or has ever run.
NoPipeline ==
    /\ aggPc = "unspawned"
    /\ \A w \in Clients : pc[w] = "unspawned" /\ wid[w] = 0 /\ prices[w] = <<>>
    /\ ~MainHoldsTx
    /\ chan = <<>> /\ sent = <<>>
    /\ iter = 0 /\ averages = <<>> /\ global_avg = None

\* read_mode has not been entered: nothing printed, nothing returned.
NoReplay == mainPc # "read" /\ printed = <<>> /\ readResult = "none"

\* C13: one mode per run.  With mode "cache" read_mode never runs; with
\* mode "read" no channel, client or aggregator is created; with any other
\* mode neither happens, no record is read or written, and main can only
\* return.
C13_OneModePerRun ==
    /\ mode = "cache" => NoReplay
    /\ mode = "read" => NoPipeline
    /\ mode = "other" =>
          /\ NoPipeline
          /\ NoReplay
          /\ mainPc \in {"start", "done"}
          /\ globalFile = NoFile /\ \A w \in Clients : file[w] = NoFile

\* main has returned from the arm of an unknown mode.
C13_Witness ==
    /\ mode = "other"
    /\ mainPc = "done"
    /\ NoPipeline
    /\ NoReplay

\* ---------------------------------------------------------------- C14
\* Every client task has finished, the queue is empty and the aggregator is
\* at the receive of an iteration of its loop.
PendingAfterClients ==
    /\ mode = "cache"
    /\ AllFinished
    /\ chan = <<>>
    /\ aggPc = "recv"
    /\ iter < num_clients

\* C14 as stated: once every client task has finished and the queue is
\* empty, the aggregator's pending receive eventually returns.
C14_PendingReceiveReturns ==
    \A i \in 0..(num_clients - 1) : (PendingAfterClients /\ iter = i) ~> (iter > i)

\* What the code does in the case of C14: with every client task finished
\* and the queue empty the
\* aggregator's receive stays pending, because main still holds its own
\* sender while it waits in its joins; no receive of the aggregator has
\* ever returned None (every completed iteration recorded an average).
C14_ReceivePendsWhileMainHoldsTx ==
    /\ mode = "cache" => iter = Len(averages)
    /\ PendingAfterClients =>
          /\ mainPc \in {"join", "joinAgg"}
          /\ ~ENABLED Receive

\* The aggregator waits for a first result that no client will send, while
\* main waits for the aggregator.
C14_Witness ==
    /\ PendingAfterClients
    /\ mainPc = "joinAgg"
    /\ sent = <<>>
    /\ iter = 0

\* ---------------------------------------------------------------- C15
\* Client w, connected, returns in this step (without a panic).
Returns(w) ==
    /\ pc[w] \in {"loop", "send", "save"}
    /\ pc'[w] \in {"nodata", "done"}

\* C15 as stated: on every path out of the loop (log empty or not, send
\* succeeded or not) a connected client returns only by a step that attempts
\* the save of client_<id>_data.txt, and the outcome of the save leaves what
\* was sent untouched.
C15_PersistOnEveryPath ==
    [][/\ \A w \in Clients :
            Returns(w) => \E o \in SaveOutcomes : SaveClient(w, o)
       /\ \A w \in Clients, o \in SaveOutcomes :
            SaveClient(w, o) => sent' = sent /\ chan' = chan]_vars

\* ---------------------------------------------------------------- C16
\* C16: a frame that is no text message, a stream error or the end of the
\* stream ends the client's loop in that very step, whatever the window;
\* with at least one collected price the log is kept as it is and the task
\* goes on to its send.  Such a client queues (id, mean of its log) and its
\* save writes that log to its record.
C16_ReadFailureStillFinalizes ==
    /\ [][\A w \in Clients :
            NextMessage(w, NoTextFrame) =>
               /\ pc'[w] # "loop"
               /\ prices[w] # <<>> =>
                     /\ pc'[w] = "send"
                     /\ prices'[w] = prices[w]
                     /\ wid[w] \in aborted']_vars
    /\ [](\A w \in Clients :
            wid[w] \in aborted =>
               /\ pc[w] \in {"send", "save"}
               /\ prices[w] # <<>>
               /\ pc[w] = "save" =>
                     \E j \in SentBy(wid[w]) : IsMeanOf(sent[j][2], prices[w]))
    /\ [][\A w \in Clients :
            (wid[w] \in aborted /\ SaveClient(w, "ok")) =>
               /\ file'[wid[w]].st = "complete"
               /\ file'[wid[w]].prices = prices[w]]_vars

\* A client whose loop was cut short by a read failure after two prices has
\* sent their mean and is about to save.
C16_Witness ==
    \E w \in Clients :
        /\ wid[w] \in aborted
        /\ pc[w] = "save"
        /\ Len(prices[w]) = 2
        /\ \E j \in SentBy(wid[w]) : IsMeanOf(sent[j][2], prices[w])
        /\ times > 0

\* ---------------------------------------------------------------- C17
\* C17: the step in which a client's connection attempt fails changes
\* nothing but that client's position: the queue, the history of sends, the
\* records, every log and every other task are as before, and a client that
\* failed to connect has never sent anything nor written its record.  Every
\* other client can still be sent once.
C17_ConnectFailureIsLocal ==
    /\ [][\A w \in Clients :
            /\ Connect(w, FALSE) =>
                  /\ pc'[w] = "failed"
                  /\ \A v \in Clients \ {w} :
                        /\ pc'[v] = pc[v]
                        /\ (pc[v] = "send" /\ SendReady)
                              => (pc'[v] = "send" /\ SendReady')
                  /\ UNCHANGED <<prices, chan, sent, file, aggVars, aborted>>
            /\ pc[w] = "failed" => pc'[w] = "failed"]_vars
    /\ [](\A w \in Clients :
            pc[w] = "failed" =>
               /\ SentBy(wid[w]) = {}
               /\ file[wid[w]] = NoFile
               /\ prices[w] = <<>>)

\* One client failed to connect; the other one sent its single result and
\* saved its record.
C17_Witness ==
    \E w, v \in Clients :
        /\ pc[w] = "failed"
        /\ pc[v] = "done"
        /\ Cardinality(SentBy(wid[v])) = 1
        /\ file[wid[v]].st = "complete"
        /\ SentBy(wid[w]) = {}

\* ---------------------------------------------------------------- C18
\* C18: in a collect-mode run client_<i>_data.txt changes only in the save
\* step of the client task spawned with id i, which is task i and no other;
\* that task attempts its save once and touches no other record.
\* global_data.txt changes only in the aggregator's final step, which
\* happens once and touches no client record.
C18_WritesPerOwnerOnce ==
    [][/\ \A i \in Clients :
            /\ file'[i] # file[i] =>
                  /\ mode = "cache"
                  /\ \E o \in SaveOutcomes : SaveClient(i, o)
                  /\ wid[i] = i
                  /\ \A v \in Clients \ {i} : wid[v] # i
            /\ (pc[i] = "save" /\ pc'[i] # "save") =>
                  /\ \A j \in Clients \ {wid[i]} : file'[j] = file[j]
                  /\ globalFile' = globalFile
                  /\ pc'[i] = "done"
            /\ pc[i] = "done" => pc'[i] = "done"
       /\ globalFile' # globalFile =>
            /\ mode = "cache"
            /\ \E o \in SaveOutcomes : Finalize(o)
            /\ file' = file
       /\ aggPc = "done" => aggPc' = "done" /\ globalFile' = globalFile]_vars

\* A finished run in which every task has written its own record.
C18_Witness ==
    /\ mode = "cache"
    /\ \A i \in Clients :
          pc[i] = "done" /\ file[i].st = "complete" /\ file[i].prices # <<>>
    /\ aggPc = "done"
    /\ globalFile.st = "complete"
    /\ Len(globalFile.prices) = num_clients

\* ---------------------------------------------------------------- C19
\* C19: whenever some client can still reach or perform its send, the
\* aggregator has not returned and owns the receiver, so a send always
\* queues its message; every message ever sent is either counted by the
\* aggregator or still queued for the live receiver, in the order sent.
C19_NoResultLost ==
    /\ [](mode = "cache" =>
            /\ (\E w \in Clients : pc[w] \in {"connect", "loop", "send"})
                  => ReceiverAlive
            /\ chan # <<>> => ReceiverAlive
            /\ averages \o AvgsOf(chan) = AvgsOf(sent)
            /\ Len(sent) = iter + Len(chan))
    /\ [][\A w \in Clients :
            Send(w) => /\ sent' = Append(sent, <<wid[w], calculate_average(prices[w])>>)
                       /\ chan' = Append(chan, <<wid[w], calculate_average(prices[w])>>)]_vars

\* The last client is about to send while the aggregator has counted every
\* other result and waits for this one.
C19_Witness ==
    /\ \E w \in Clients : pc[w] = "send"
    /\ iter = num_clients - 1
    /\ chan = <<>>
    /\ ReceiverAlive

\* ---------------------------------------------------------------- C20
\* Every client has connected and left its loop with a non-empty log.
AllCollected ==
    /\ mode = "cache"
    /\ \A w \in Clients : pc[w] \in {"send", "save", "done"}

\* The run has terminated: main has completed its joins and left the
\* "cache" arm.
Terminated == mode = "cache" /\ mainPc = "done"

\* C20: under fair scheduling, once every client has left its loop with a
\* non-empty log, the aggregator eventually receives all num_clients results
\* and finalizes, and main completes its joins; a collect-mode run that all
\* clients have sent a result in terminates, and a terminated run is one in
\* which all clients have sent a result.
C20_TerminatesIffAllSend ==
    /\ AllCollected ~>
          (Terminated /\ aggPc = "done" /\ Len(averages) = num_clients)
    /\ (mode = "cache" /\ Len(sent) = num_clients) ~> Terminated
    /\ [](Terminated => Len(sent) = num_clients /\ aggPc = "done")

\* A terminated run: every client sent and returned, the aggregator counted
\* num_clients results and main left the "cache" arm.
C20_Witness ==
    /\ Terminated
    /\ \A w \in Clients : pc[w] = "done"
    /\ Len(sent) = num_clients
    /\ Len(averages) = num_clients
    /\ aggPc = "done"

=============================================================================
